---- MODULE Spec2Model ----
(***************************************************************************)
(* A model of device_generator.py: the per-platform generator classes with *)
(* their class-level catalog cache, and get_random_device, which selects   *)
(* one fingerprint record from the cached catalog by a hash of the         *)
(* caller's identifier.                                                    *)
(*                                                                         *)
(* Strings are TLA+ strings; JSON lists are sequences; a JSON object whose *)
(* key order matters (the iOS catalogs) is a sequence of <<key, value>>    *)
(* pairs in document order, which is the order Python's dict iterates in.  *)
(***************************************************************************)
EXTENDS Integers, Sequences, FiniteSets, TLC

(***************************************************************************)
(* Bounds of the model.                                                    *)
(***************************************************************************)
\* os.urandom gives any digest; the model draws the reduced hash from the
\* MaxRandomHash + 1 largest values below 10^12.
MaxRandomHash == 0

\* Threads of the concurrent specification.
NumThreads == 2

(***************************************************************************)
(* Platforms, directories, identifiers.                                    *)
(***************************************************************************)
\* The keys of platform_classes.
Platforms == {"Windows", "Linux", "macOS", "Android", "iOS"}

\* What a caller may pass as platform: the keys and two strings that are not.
PlatformInputs == Platforms \cup {"BeOS", "ios"}

\* The data_dir arguments callers pass; "data" is the default.
DataDirs == {"data", "alt"}

\* unique_id = None
None == "<None>"

\* The identifier strings callers pass.
Identifiers == {"user123", "fixed"}

(***************************************************************************)
(* The files under the data directories.                                   *)
(***************************************************************************)
\* Every path that exists, with the parsed JSON document it holds.  A
\* document is a function from its top-level keys to their values.  There
\* is no linux.json, and no windows.json under "alt".
Files ==
  [p \in {"data/windows.json", "data/macos.json", "alt/macos.json",
          "data/android.json", "alt/android.json", "data/ios.json",
          "alt/ios.json"} |->
    CASE p = "data/windows.json" ->
           [k \in {"device_models", "system_versions", "lang_codes",
                   "system_lang_codes", "app_versions", "lang_packs",
                   "api_id", "api_hash"} |->
             CASE k = "device_models"     -> <<"PC-A", "PC-B">>
               [] k = "system_versions"   -> <<"10", "11">>
               [] k = "lang_codes"        -> <<"en", "de", "fr">>
               [] k = "system_lang_codes" -> <<"en-US", "de-DE">>
               [] k = "app_versions"      -> <<"4.8", "5.0">>
               [] k = "lang_packs"        -> <<"tdesktop", "", "win">>
               [] k = "api_id"            -> <<"2040", "17349">>
               [] k = "api_hash"          -> <<"b184", "3445", "aa11">>]
      [] p = "data/macos.json" ->
           \* lang_packs holds no usable entry
           [k \in {"device_models", "system_versions", "lang_codes",
                   "system_lang_codes", "app_versions", "lang_packs",
                   "api_id", "api_hash"} |->
             CASE k = "device_models"     -> <<"MacBook", "iMac", "Mini">>
               [] k = "system_versions"   -> <<"14.1", "13.0">>
               [] k = "lang_codes"        -> <<"en">>
               [] k = "system_lang_codes" -> <<"en-US", "fr-FR", "es-ES">>
               [] k = "app_versions"      -> <<"10.1", "10.2">>
               [] k = "lang_packs"        -> <<"">>
               [] k = "api_id"            -> <<"1">>
               [] k = "api_hash"          -> <<"h1", "h2">>]
      [] p = "alt/macos.json" ->
           \* a device list can be built, but there is no language code
           [k \in {"device_models", "system_versions", "lang_codes",
                   "app_versions"} |->
             CASE k = "device_models"     -> <<"Studio">>
               [] k = "system_versions"   -> <<"12.0">>
               [] k = "lang_codes"        -> <<>>
               [] k = "app_versions"      -> <<"9.9">>]
      [] p = "data/android.json" ->
           \* no device model
           [k \in {"device_models", "system_versions", "lang_codes",
                   "app_versions"} |->
             CASE k = "device_models"     -> <<>>
               [] k = "system_versions"   -> <<"13">>
               [] k = "lang_codes"        -> <<"en">>
               [] k = "app_versions"      -> <<"9.0">>]
      [] p = "alt/android.json" ->
           \* every optional key omitted
           [k \in {"device_models", "system_versions", "lang_codes",
                   "app_versions"} |->
             CASE k = "device_models"     -> <<"Pixel", "Galaxy">>
               [] k = "system_versions"   -> <<"12", "13", "14">>
               [] k = "lang_codes"        -> <<"en", "uk">>
               [] k = "app_versions"      -> <<"9.1">>]
      [] p = "data/ios.json" ->
           [k \in {"device_models", "system_versions", "lang_codes",
                   "app_versions", "lang_packs", "api_id", "api_hash"} |->
             CASE k = "device_models"     -> << <<"SE", <<"">>>>,
                                                <<"12", <<" Pro">>>> >>
               [] k = "system_versions"   -> << <<"15", << <<"0", <<>>>> >> >> >>
               [] k = "lang_codes"        -> <<"en", "it">>
               [] k = "app_versions"      -> <<"8.0">>
               [] k = "lang_packs"        -> <<"ios">>
               [] k = "api_id"            -> <<"10840">>
               [] k = "api_hash"          -> <<"1662">>]
      [] p = "alt/ios.json" ->
           [k \in {"device_models", "system_versions", "lang_codes",
                   "system_lang_codes", "app_versions", "api_id"} |->
             CASE k = "device_models"     -> << <<"13", <<" mini", " Pro Max ">>>>,
                                                <<"SE", <<" ">>>> >>
               [] k = "system_versions"   -> << <<"16", << <<"1", <<"2", "3">>>>,
                                                          <<"4", <<>>>> >> >>,
                                                <<"17", << <<"0", <<"1">>>> >> >> >>
               [] k = "lang_codes"        -> <<"en">>
               [] k = "system_lang_codes" -> <<"en-GB", "en-US">>
               [] k = "app_versions"      -> <<"8.1", "8.2">>
               [] k = "api_id"            -> <<"94575", "8">>]]

(***************************************************************************)
(* Strings.                                                                *)
(***************************************************************************)
\* The lower-case form of each upper-case letter.
LowerOf ==
  [c \in {"A", "B", "C", "D", "E", "F", "G", "H", "I", "J", "K", "L", "M",
          "N", "O", "P", "Q", "R", "S", "T", "U", "V", "W", "X", "Y", "Z"} |->
    CASE c = "A" -> "a" [] c = "B" -> "b" [] c = "C" -> "c" [] c = "D" -> "d"
      [] c = "E" -> "e" [] c = "F" -> "f" [] c = "G" -> "g" [] c = "H" -> "h"
      [] c = "I" -> "i" [] c = "J" -> "j" [] c = "K" -> "k" [] c = "L" -> "l"
      [] c = "M" -> "m" [] c = "N" -> "n" [] c = "O" -> "o" [] c = "P" -> "p"
      [] c = "Q" -> "q" [] c = "R" -> "r" [] c = "S" -> "s" [] c = "T" -> "t"
      [] c = "U" -> "u" [] c = "V" -> "v" [] c = "W" -> "w" [] c = "X" -> "x"
      [] c = "Y" -> "y" [] c = "Z" -> "z"]

\* str.lower() on one character.
LowerChar(c) == IF c \in DOMAIN LowerOf THEN LowerOf[c] ELSE c

\* str.lower()
RECURSIVE Lower(_)
Lower(s) ==
  IF s = "" THEN ""
  ELSE LowerChar(SubSeq(s, 1, 1)) \o Lower(SubSeq(s, 2, Len(s)))

\* The characters str.strip() removes.
Whitespace == {" ", "\t", "\n", "\r"}

RECURSIVE LStrip(_)
LStrip(s) ==
  IF s # "" /\ SubSeq(s, 1, 1) \in Whitespace
    THEN LStrip(SubSeq(s, 2, Len(s)))
    ELSE s

RECURSIVE RStrip(_)
RStrip(s) ==
  IF s # "" /\ SubSeq(s, Len(s), Len(s)) \in Whitespace
    THEN RStrip(SubSeq(s, 1, Len(s) - 1))
    ELSE s

\* str.strip()
Strip(s) == RStrip(LStrip(s))

(***************************************************************************)
(* The identifier hash.  A hash_id is an integer below 10^12 plus a small  *)
(* offset; it is kept as <<hi, lo>>, standing for hi * HashBase + lo, so   *)
(* that no intermediate value leaves the range of the model checker.       *)
(***************************************************************************)
\* 10 ** 12 = HashBase * HashBase
HashBase == 1000000

\* int(hashlib.sha1(u.encode("utf-8")).hexdigest(), 16) % (10 ** 12), for the
\* identifiers of the model (the values the digest gives).
Sha1Mod(u) ==
  CASE u = "user123" -> <<819403, 281310>>
    [] u = "fixed"   -> <<198834, 220397>>

\* The reduced hashes the model draws for os.urandom(32): the largest ones.
RandomHashes ==
  {<<HashBase - 1, HashBase - 1 - r>> : r \in 0..MaxRandomHash}

\* The entropy argument of a call that draws none.
NoEntropy == <<0, 0>>

\* _str_to_hash_id; entropy is the reduced hash of the bytes os.urandom gave.
StrToHashId(unique_id, entropy) ==
  IF unique_id = None THEN entropy ELSE Sha1Mod(unique_id)

\* hash_id + k with the offset forgotten.
HashAdd_Dropped(hash_id, k) == hash_id

\* hash_id + k
HashAdd(hash_id, k) ==
  <<hash_id[1] + ((hash_id[2] + k) \div HashBase), (hash_id[2] + k) % HashBase>>

\* hash_id % n
HashMod(hash_id, n) ==
  (((hash_id[1] % n) * (HashBase % n)) + (hash_id[2] % n)) % n

\* _hash_to_value: the value selected, or the ValueError of an empty list.
HashToValue(hash_id, values) ==
  IF values = <<>>
    THEN [raised |-> TRUE, value |-> ""]
    ELSE [raised |-> FALSE, value |-> values[HashMod(hash_id, Len(values)) + 1]]

(***************************************************************************)
(* The generator classes.  A class is the record of its attributes.        *)
(***************************************************************************)
\* The exceptions a call ends with, under the names the design gives them.
UnsupportedPlatform == "ValueError: Unsupported platform"

MissingCatalog == "FileNotFoundError: JSON file not found"

EmptyCandidatePool == "ValueError: No values available"

\* DeviceInfo(...)
DeviceInfo(device_model, system_version, lang_code, system_lang_code, app_version, lang_pack, api_id, api_hash) ==
  [device_model     |-> device_model,
   system_version   |-> system_version,
   lang_code        |-> lang_code,
   system_lang_code |-> system_lang_code,
   app_version      |-> app_version,
   lang_pack        |-> lang_pack,
   api_id           |-> api_id,
   api_hash         |-> api_hash]

\* The names of the fields of a DeviceInfo, in the order to_dict gives them.
FieldNames ==
  <<"device_model", "system_version", "lang_code", "system_lang_code",
    "app_version", "lang_pack", "api_id", "api_hash">>

\* The attributes of BaseDeviceGenerator that every platform class starts
\* with, under its own platform name.
BaseDeviceGenerator(platform) ==
  [device_list       |-> <<>>,
   device_models     |-> <<>>,
   system_versions   |-> <<>>,
   lang_codes        |-> <<>>,
   system_lang_codes |-> <<>>,
   app_versions      |-> <<>>,
   lang_packs        |-> <<>>,
   api_id            |-> <<>>,
   api_hash          |-> <<>>,
   platform          |-> platform,
   data_dir          |-> "data"]

\* Path(cls.data_dir) / f"{cls.platform.lower()}.json"
JsonPath(cls) == cls.data_dir \o "/" \o Lower(cls.platform) \o ".json"

\* json_path.exists()
PathExists(path) == path \in DOMAIN Files

\* data.get(key, default)
Get(data, key, default) == IF key \in DOMAIN data THEN data[key] ELSE default

\* [lp for lp in lang_packs if lp and isinstance(lp, str)]; the entries of
\* the model's documents are all strings.
RECURSIVE FilterLangPacks(_)
FilterLangPacks(packs) ==
  IF packs = <<>> THEN <<>>
  ELSE IF Head(packs) # "" THEN <<Head(packs)>> \o FilterLangPacks(Tail(packs))
  ELSE FilterLangPacks(Tail(packs))

\* The assignments of load_data without the filter of lang_packs and its
\* fallback.
AssignCatalog_NoFilter(cls, data) ==
  [cls EXCEPT
     !.device_models     = Get(data, "device_models", <<>>),
     !.system_versions   = Get(data, "system_versions", <<>>),
     !.lang_codes        = Get(data, "lang_codes", <<>>),
     !.system_lang_codes = Get(data, "system_lang_codes", Get(data, "lang_codes", <<>>)),
     !.app_versions      = Get(data, "app_versions", <<>>),
     !.lang_packs        = Get(data, "lang_packs", <<"default">>),
     !.api_id            = Get(data, "api_id", <<"">>),
     !.api_hash          = Get(data, "api_hash", <<"">>)]

\* The assignments of load_data (lines 53-64) from the parsed document.
AssignCatalog(cls, data) ==
  [cls EXCEPT
     !.device_models     = Get(data, "device_models", <<>>),
     !.system_versions   = Get(data, "system_versions", <<>>),
     !.lang_codes        = Get(data, "lang_codes", <<>>),
     !.system_lang_codes = Get(data, "system_lang_codes", Get(data, "lang_codes", <<>>)),
     !.app_versions      = Get(data, "app_versions", <<>>),
     !.lang_packs        =
        IF FilterLangPacks(Get(data, "lang_packs", <<"default">>)) = <<>>
          THEN <<"en-US">>
          ELSE FilterLangPacks(Get(data, "lang_packs", <<"default">>)),
     !.api_id            = Get(data, "api_id", <<"">>),
     !.api_hash          = Get(data, "api_hash", <<"">>)]

\* load_data returning quietly when the file does not exist.
LoadData_NoExistsCheck(cls) ==
  IF ~PathExists(JsonPath(cls))
    THEN [raised |-> "", cls |-> cls]
    ELSE [raised |-> "", cls |-> AssignCatalog(cls, Files[JsonPath(cls)])]

\* load_data assigning the default of lang_packs before it looks for the file.
LoadData_AssignsBeforeCheck(cls) ==
  IF ~PathExists(JsonPath(cls))
    THEN [raised |-> MissingCatalog, cls |-> [cls EXCEPT !.lang_packs = <<"default">>]]
    ELSE [raised |-> "", cls |-> AssignCatalog(cls, Files[JsonPath(cls)])]

\* load_data: the class after the load, or the FileNotFoundError raised
\* before any attribute is assigned.
LoadData(cls) ==
  IF ~PathExists(JsonPath(cls))
    THEN [raised |-> MissingCatalog, cls |-> cls]
    ELSE [raised |-> "", cls |-> AssignCatalog(cls, Files[JsonPath(cls)])]

\* values[0] if values else default
FirstOr(values, default) == IF values # <<>> THEN values[1] ELSE default

\* The DeviceInfo that _generate appends for one model and one version; its
\* last six fields are the first entry of each list of the class.
Entry(cls, model, version, pack_default) ==
  DeviceInfo(model, version,
             FirstOr(cls.lang_codes, "en"),
             FirstOr(cls.system_lang_codes, "en-US"),
             FirstOr(cls.app_versions, "1.0.0"),
             FirstOr(cls.lang_packs, pack_default),
             FirstOr(cls.api_id, ""),
             FirstOr(cls.api_hash, ""))

\* for version in cls.system_versions: cls.device_list.append(...)
RECURSIVE FlatVersions(_, _, _, _, _)
FlatVersions(cls, list, model, versions, pack_default) ==
  IF versions = <<>> THEN list
  ELSE FlatVersions(cls, Append(list, Entry(cls, model, Head(versions), pack_default)),
                    model, Tail(versions), pack_default)

\* for model in cls.device_models: for version in cls.system_versions: ...
RECURSIVE FlatModels(_, _, _, _)
FlatModels(cls, list, models, pack_default) ==
  IF models = <<>> THEN list
  ELSE FlatModels(cls,
                  FlatVersions(cls, list, Head(models), cls.system_versions, pack_default),
                  Tail(models), pack_default)

\* The version string taking the last patch of the list.
IOSVersion_LastPatch(major, minor, patches) ==
  IF patches = <<>> THEN major \o "." \o minor
  ELSE major \o "." \o minor \o "." \o patches[Len(patches)]

\* f"{major}.{minor}" if not patches else f"{major}.{minor}.{patches[0]}"
IOSVersion(major, minor, patches) ==
  IF patches = <<>> THEN major \o "." \o minor
  ELSE major \o "." \o minor \o "." \o patches[1]

\* for minor, patches in minors.items(): cls.device_list.append(...)
RECURSIVE IOSMinors(_, _, _, _, _)
IOSMinors(cls, list, model_name, major, minors) ==
  IF minors = <<>> THEN list
  ELSE IOSMinors(cls,
                 Append(list, Entry(cls, model_name,
                                    IOSVersion(major, Head(minors)[1], Head(minors)[2]),
                                    "default")),
                 model_name, major, Tail(minors))

\* for major, minors in cls.system_versions.items(): ...
RECURSIVE IOSMajors(_, _, _, _)
IOSMajors(cls, list, model_name, majors) ==
  IF majors = <<>> THEN list
  ELSE IOSMajors(cls,
                 IOSMinors(cls, list, model_name, Head(majors)[1], Head(majors)[2]),
                 model_name, Tail(majors))

\* f"iPhone {model_id}" if model_id != "SE" else "iPhone SE"
BaseModel(model_id) ==
  IF model_id # "SE" THEN "iPhone " \o model_id ELSE "iPhone SE"

\* f"{base_model}{suffix}".strip()
ModelName(model_id, suffix) == Strip(BaseModel(model_id) \o suffix)

\* for suffix in suffixes: ...
RECURSIVE IOSSuffixes(_, _, _, _)
IOSSuffixes(cls, list, model_id, suffixes) ==
  IF suffixes = <<>> THEN list
  ELSE IOSSuffixes(cls,
                   IOSMajors(cls, list, ModelName(model_id, Head(suffixes)),
                             cls.system_versions),
                   model_id, Tail(suffixes))

\* for model_id, suffixes in cls.device_models.items(): ...
RECURSIVE IOSModels(_, _, _)
IOSModels(cls, list, models) ==
  IF models = <<>> THEN list
  ELSE IOSModels(cls, IOSSuffixes(cls, list, Head(models)[1], Head(models)[2]),
                 Tail(models))

\* The device list _generate builds from the loaded class, by platform.
Expand(cls) ==
  IF cls.platform = "iOS" THEN IOSModels(cls, <<>>, cls.device_models)
  ELSE IF cls.platform = "macOS" THEN FlatModels(cls, <<>>, cls.device_models, "macos")
  ELSE FlatModels(cls, <<>>, cls.device_models, "default")

\* Lines 97-142 of _generate, after load_data returned or raised l.
BuildDeviceList(l) ==
  IF l.raised # ""
    THEN [raised |-> l.raised, loaded |-> FALSE, cls |-> l.cls]
    ELSE [raised |-> "", loaded |-> TRUE,
          cls |-> [l.cls EXCEPT !.device_list = Expand(l.cls)]]

\* _generate without the test of the cached device list.
Generate_AlwaysReloads(cls) == BuildDeviceList(LoadData(cls))

\* _generate: the class afterwards, whether load_data ran to its end, and
\* the exception that left it.
Generate(cls) ==
  IF cls.device_list # <<>>
    THEN [raised |-> "", loaded |-> FALSE, cls |-> cls]
    ELSE BuildDeviceList(LoadData(cls))

(***************************************************************************)
(* Selection and assembly.                                                 *)
(***************************************************************************)
\* What a failed call leaves in place of a record.
NoInfo == DeviceInfo("", "", "", "", "", "", "", "")

\* Lines 75-91 of _random_device, after _generate returned or raised g:
\* the seven selections at offsets 0..6, the first empty list raising; then
\* the record assembled from the selected device's model and version and
\* the six selected values.
SelectFields(g, hash_id) ==
  LET device           == HashToValue(hash_id, g.cls.device_list)
      lang_code        == HashToValue(HashAdd(hash_id, 1), g.cls.lang_codes)
      system_lang_code == HashToValue(HashAdd(hash_id, 2), g.cls.system_lang_codes)
      app_version      == HashToValue(HashAdd(hash_id, 3), g.cls.app_versions)
      lang_pack        == HashToValue(HashAdd(hash_id, 4), g.cls.lang_packs)
      api_id           == HashToValue(HashAdd(hash_id, 5), g.cls.api_id)
      api_hash         == HashToValue(HashAdd(hash_id, 6), g.cls.api_hash)
  IN  IF g.raised # ""
        THEN [raised |-> g.raised, loaded |-> g.loaded, cls |-> g.cls,
              info |-> NoInfo]
      ELSE IF \/ device.raised \/ lang_code.raised \/ system_lang_code.raised
              \/ app_version.raised \/ lang_pack.raised \/ api_id.raised
              \/ api_hash.raised
        THEN [raised |-> EmptyCandidatePool, loaded |-> g.loaded, cls |-> g.cls,
              info |-> NoInfo]
      ELSE [raised |-> "", loaded |-> g.loaded, cls |-> g.cls,
            info |-> DeviceInfo(device.value.device_model,
                                device.value.system_version,
                                lang_code.value, system_lang_code.value,
                                app_version.value, lang_pack.value,
                                api_id.value, api_hash.value)]

\* _random_device
RandomDeviceInner(cls, hash_id) == SelectFields(Generate(cls), hash_id)

\* json.dumps(info.to_dict(), ensure_ascii=False); no value of the model's
\* documents holds a character that JSON escapes.
RECURSIVE JsonFields(_, _)
JsonFields(info, i) ==
  IF i > Len(FieldNames) THEN ""
  ELSE (IF i > 1 THEN ", " ELSE "")
         \o "\"" \o FieldNames[i] \o "\": \"" \o info[FieldNames[i]] \o "\""
         \o JsonFields(info, i + 1)

JsonDumps(info) == "{" \o JsonFields(info, 1) \o "}"

\* random_device returning the record of defaults when a list was empty.
Serialize_SwallowsEmptyPool(r) ==
  [raised |-> IF r.raised = EmptyCandidatePool THEN "" ELSE r.raised,
   loaded |-> r.loaded, cls |-> r.cls, info |-> r.info,
   output |-> IF r.raised \in {"", EmptyCandidatePool} THEN JsonDumps(r.info) ELSE ""]

\* Line 70 of random_device, after _random_device returned or raised r.
Serialize(r) ==
  [raised |-> r.raised, loaded |-> r.loaded, cls |-> r.cls, info |-> r.info,
   output |-> IF r.raised = "" THEN JsonDumps(r.info) ELSE ""]

\* random_device, given the hash _str_to_hash_id returned.
RandomDevice(cls, hash_id) == Serialize(RandomDeviceInner(cls, hash_id))

(***************************************************************************)
(* The state.                                                              *)
(***************************************************************************)
VARIABLES
  platform_classes,  \* the five classes, each the record of its attributes
  result,            \* the latest call of get_random_device and how it ended
  threads            \* the calls in progress, one per thread: position and locals

vars == <<platform_classes, result, threads>>

Threads == 1..NumThreads

\* A thread that has not called get_random_device yet. pc is the statement
\* the thread is at; models, model and versions are the iterators and the
\* loop variable of _generate; loaded, raised and output are how the call
\* went.
IdleThread ==
  [pc |-> "idle", platform |-> "", unique_id |-> None, data_dir |-> "",
   hash_id |-> NoEntropy, models |-> <<>>, model |-> "", versions |-> <<>>,
   loaded |-> FALSE, raised |-> "", output |-> ""]

\* How a call ended: the arguments, the hash, the exception raised ("" for
\* none), whether load_data ran, the record and the string returned.
Outcome(platform, unique_id, hash_id, r) ==
  [platform  |-> platform,
   unique_id |-> unique_id,
   hash_id   |-> hash_id,
   raised    |-> r.raised,
   loaded    |-> r.loaded,
   info      |-> r.info,
   output    |-> r.output]

Init ==
  /\ platform_classes = [p \in Platforms |-> BaseDeviceGenerator(p)]
  /\ result = Outcome("", None, NoEntropy,
                      [raised |-> "", loaded |-> FALSE, info |-> NoInfo, output |-> ""])
  /\ threads = [t \in Threads |-> IdleThread]

\* The lookup of the class ignoring the case of the platform string.
PlatformKey_CaseInsensitive(platform) ==
  IF \E p \in Platforms : Lower(p) = Lower(platform)
    THEN CHOOSE p \in Platforms : Lower(p) = Lower(platform)
    ELSE None

\* platform_classes.get(platform): the key of the class found, or None.
PlatformKey(platform) == IF platform \in Platforms THEN platform ELSE None

\* get_random_device(platform, ...) when the lookup finds no class.
Unsupported(platform, unique_id) ==
  /\ PlatformKey(platform) = None
  /\ result' = Outcome(platform, unique_id, NoEntropy,
                       [raised |-> UnsupportedPlatform, loaded |-> FALSE,
                        info |-> NoInfo, output |-> ""])
  /\ UNCHANGED <<platform_classes, threads>>

\* The end of a call on the class found under key: the class and the outcome.
Return(key, platform, unique_id, hash_id, r) ==
  /\ platform_classes' = [platform_classes EXCEPT ![key] = r.cls]
  /\ result' = Outcome(platform, unique_id, hash_id, r)
  /\ UNCHANGED threads

\* get_random_device(platform, unique_id, data_dir) when the lookup finds a
\* class: data_dir is assigned, the identifier hashed, and random_device run
\* on the class.
GetRandomDevice(platform, unique_id, data_dir, entropy) ==
  /\ PlatformKey(platform) # None
  /\ Return(PlatformKey(platform), platform, unique_id,
            StrToHashId(unique_id, entropy),
            RandomDevice([platform_classes[PlatformKey(platform)]
                            EXCEPT !.data_dir = data_dir],
                         StrToHashId(unique_id, entropy)))

Next ==
  \/ \E platform \in PlatformInputs, unique_id \in Identifiers \cup {None} :
       Unsupported(platform, unique_id)
  \/ \E platform \in PlatformInputs, unique_id \in Identifiers \cup {None},
        data_dir \in DataDirs :
       \E entropy \in IF unique_id = None THEN RandomHashes ELSE {NoEntropy} :
         GetRandomDevice(platform, unique_id, data_dir, entropy)

Spec == Init /\ [][Next]_vars

(***************************************************************************)
(* Calls from several threads.  The code holds no lock, so a thread may be *)
(* preempted between any two statements; each action below is one run of   *)
(* consecutive statements of one thread.                                   *)
(***************************************************************************)
\* for suffix in suffixes: model_name = f"{base_model}{suffix}".strip()
RECURSIVE SuffixNames(_, _)
SuffixNames(model_id, suffixes) ==
  IF suffixes = <<>> THEN <<>>
  ELSE <<ModelName(model_id, Head(suffixes))>> \o SuffixNames(model_id, Tail(suffixes))

\* The model names the loops over device_models.items() and suffixes yield.
RECURSIVE ModelNames(_)
ModelNames(models) ==
  IF models = <<>> THEN <<>>
  ELSE SuffixNames(Head(models)[1], Head(models)[2]) \o ModelNames(Tail(models))

\* for minor, patches in minors.items(): version = ...
RECURSIVE MinorVersions(_, _)
MinorVersions(major, minors) ==
  IF minors = <<>> THEN <<>>
  ELSE <<IOSVersion(major, Head(minors)[1], Head(minors)[2])>>
         \o MinorVersions(major, Tail(minors))

\* The versions the loops over system_versions.items() and minors yield.
RECURSIVE MajorVersions(_)
MajorVersions(majors) ==
  IF majors = <<>> THEN <<>>
  ELSE MinorVersions(Head(majors)[1], Head(majors)[2]) \o MajorVersions(Tail(majors))

\* What the outer loops of _generate iterate over, read from the class when
\* the loop starts.
OuterItems(cls) ==
  IF cls.platform = "iOS" THEN ModelNames(cls.device_models) ELSE cls.device_models

\* What the inner loops of _generate iterate over, read from the class each
\* time an inner loop starts.
InnerItems(cls) ==
  IF cls.platform = "iOS" THEN MajorVersions(cls.system_versions)
  ELSE cls.system_versions

\* The default of lang_pack in the entries of the platform's branch.
PackDefault(cls) == IF cls.platform = "macOS" THEN "macos" ELSE "default"

\* The class of the platform thread t is calling on.
ClassOf(t) == platform_classes[threads[t].platform]

\* Thread t leaves get_random_device with an exception.
Raise(t, exc) ==
  threads' = [threads EXCEPT ![t].pc = "done", ![t].raised = exc]

\* Thread t goes on to the statement pc.
Goto(t, pc) == threads' = [threads EXCEPT ![t].pc = pc]

\* Lines 184-186: thread t calls with a platform the lookup does not find.
CallUnsupported(t, platform, unique_id) ==
  /\ threads[t].pc = "idle"
  /\ PlatformKey(platform) = None
  /\ threads' = [threads EXCEPT ![t].pc = "done", ![t].platform = platform,
                                ![t].unique_id = unique_id,
                                ![t].raised = UnsupportedPlatform]
  /\ UNCHANGED <<platform_classes, result>>

\* Lines 184-188 and 68: thread t calls, the class is found, data_dir is
\* assigned to the class and the identifier hashed.
Call(t, platform, unique_id, data_dir, entropy) ==
  /\ threads[t].pc = "idle"
  /\ PlatformKey(platform) # None
  /\ platform_classes' =
       [platform_classes EXCEPT ![PlatformKey(platform)].data_dir = data_dir]
  /\ threads' = [threads EXCEPT ![t].pc = "generate",
                                ![t].platform = PlatformKey(platform),
                                ![t].unique_id = unique_id,
                                ![t].data_dir = data_dir,
                                ![t].hash_id = StrToHashId(unique_id, entropy)]
  /\ UNCHANGED result

\* Line 95: if not cls.device_list.
TestDeviceList(t) ==
  /\ threads[t].pc = "generate"
  /\ Goto(t, IF ClassOf(t).device_list # <<>> THEN "select" ELSE "load")
  /\ UNCHANGED <<platform_classes, result>>

\* Line 96: cls.load_data(), from the data_dir the class holds now.
LoadCatalog(t) ==
  /\ threads[t].pc = "load"
  /\ IF LoadData(ClassOf(t)).raised # ""
       THEN /\ Raise(t, LoadData(ClassOf(t)).raised)
            /\ UNCHANGED platform_classes
       ELSE /\ threads' = [threads EXCEPT ![t].pc = "reset", ![t].loaded = TRUE]
            /\ platform_classes' =
                 [platform_classes EXCEPT ![threads[t].platform] = LoadData(ClassOf(t)).cls]
  /\ UNCHANGED result

\* Line 97 and the start of the outer loop: cls.device_list = [] and the
\* iterator over the device_models the class holds now.
ResetDeviceList(t) ==
  /\ threads[t].pc = "reset"
  /\ platform_classes' =
       [platform_classes EXCEPT ![threads[t].platform].device_list = <<>>]
  /\ threads' = [threads EXCEPT ![t].pc = "outer",
                                ![t].models = OuterItems(ClassOf(t))]
  /\ UNCHANGED result

\* One step of the outer loop: the next model and the iterator over the
\* system_versions the class holds now, or the end of _generate.
NextModel(t) ==
  /\ threads[t].pc = "outer"
  /\ IF threads[t].models = <<>>
       THEN Goto(t, "select")
       ELSE threads' = [threads EXCEPT ![t].pc = "inner",
                                       ![t].model = Head(threads[t].models),
                                       ![t].models = Tail(threads[t].models),
                                       ![t].versions = InnerItems(ClassOf(t))]
  /\ UNCHANGED <<platform_classes, result>>

\* One step of the inner loop: cls.device_list.append(DeviceInfo(...)) on
\* the list and from the lists the class holds now, or the end of the loop.
AppendDevice(t) ==
  /\ threads[t].pc = "inner"
  /\ IF threads[t].versions = <<>>
       THEN /\ Goto(t, "outer")
            /\ UNCHANGED platform_classes
       ELSE /\ threads' = [threads EXCEPT ![t].versions = Tail(threads[t].versions)]
            /\ platform_classes' =
                 [platform_classes EXCEPT ![threads[t].platform].device_list =
                    Append(@, Entry(ClassOf(t), threads[t].model,
                                    Head(threads[t].versions), PackDefault(ClassOf(t))))]
  /\ UNCHANGED result

\* The end of thread t's call with what random_device returned or raised.
Finish(t, r) ==
  threads' = [threads EXCEPT ![t].pc = "done", ![t].raised = r.raised,
                             ![t].output = r.output]

\* Lines 75-91 and 70: the seven selections from the lists the class holds
\* now, and the record serialized.
SelectDevice(t) ==
  /\ threads[t].pc = "select"
  /\ Finish(t, Serialize(SelectFields([raised |-> "", loaded |-> threads[t].loaded,
                                       cls |-> ClassOf(t)],
                                      threads[t].hash_id)))
  /\ UNCHANGED <<platform_classes, result>>

\* The calls the threads make: a platform string and a data_dir.
ConcurrentCalls ==
  {<<"Windows", "data">>, <<"Windows", "alt">>, <<"iOS", "data">>,
   <<"macOS", "alt">>, <<"BeOS", "data">>}

NextConc ==
  \/ \E t \in Threads, call \in ConcurrentCalls,
        unique_id \in Identifiers \cup {None} :
       CallUnsupported(t, call[1], unique_id)
  \/ \E t \in Threads, call \in ConcurrentCalls,
        unique_id \in Identifiers \cup {None} :
       \E entropy \in IF unique_id = None THEN RandomHashes ELSE {NoEntropy} :
         Call(t, call[1], unique_id, call[2], entropy)
  \/ \E t \in Threads : TestDeviceList(t)
  \/ \E t \in Threads : LoadCatalog(t)
  \/ \E t \in Threads : ResetDeviceList(t)
  \/ \E t \in Threads : NextModel(t)
  \/ \E t \in Threads : AppendDevice(t)
  \/ \E t \in Threads : SelectDevice(t)

SpecConc == Init /\ [][NextConc]_vars

(***************************************************************************)
(* Properties of the sequential program.                                   *)
(***************************************************************************)
\* The platforms whose catalogs hold flat lists.
FlatPlatforms == {"Windows", "Linux", "macOS", "Android"}

\* The six attributes selected from besides the device list.
ListsOf(cls) ==
  <<cls.lang_codes, cls.system_lang_codes, cls.app_versions, cls.lang_packs,
    cls.api_id, cls.api_hash>>

\* The latest call was made for a platform class and returned a record.
Returned == result.platform \in Platforms /\ result.raised = ""

\* The string a class with a cached device list returns for identifier u,
\* "" when it returns none.
Committed(cls, u) ==
  IF cls.device_list = <<>> THEN ""
  ELSE Serialize(SelectFields([raised |-> "", loaded |-> FALSE, cls |-> cls],
                              Sha1Mod(u))).output

\* The lists of a class: all of it that a selection reads.
CatalogOf(cls) ==
  <<cls.device_list, cls.lang_codes, cls.system_lang_codes, cls.app_versions,
    cls.lang_packs, cls.api_id, cls.api_hash>>

\* C1: two calls for the same platform and the same identifier string that
\* both return a record return the same string, whatever calls come between
\* them.  Stated on steps: the string a call returns is the one its class is
\* committed to afterwards, and a class committed to a string for an
\* identifier stays committed to it through every call (a step that changes
\* none of the lists of the class changes no commitment of it).
C1_Determinism ==
  /\ [](Returned /\ result.unique_id \in Identifiers
          => Committed(platform_classes[result.platform], result.unique_id)
               = result.output)
  /\ [][\A p \in Platforms :
          \/ CatalogOf(platform_classes'[p]) = CatalogOf(platform_classes[p])
          \/ \A u \in Identifiers :
               \/ Committed(platform_classes[p], u) = ""
               \/ Committed(platform_classes'[p], u) = Committed(platform_classes[p], u)
      ]_vars

\* A record was returned for an identifier by a call that passed a directory
\* other than the one the cached catalog came from.
C1_Witness ==
  /\ Returned
  /\ result.platform = "Windows"
  /\ result.unique_id = "user123"
  /\ platform_classes["Windows"].data_dir = "alt"

LoadedOnce(cls) == cls.lang_packs # <<>>

\* C3 as claimed: after the first successful load for a platform no later
\* call for that platform loads again.
C3_LoadedAtMostOnce ==
  [][\A p \in Platforms :
       LoadedOnce(platform_classes[p]) /\ result'.platform = p
         => ~result'.loaded
    ]_vars

C5_AllFieldsNonEmpty ==
  Returned => \A i \in 1..Len(FieldNames) : result.info[FieldNames[i]] # ""

\* C5: a returned record has the eight fields, all strings; the first six
\* are non-empty, and api_id and api_hash are empty exactly when selected
\* from the default [""] of an omitted key.
C5_FieldCompleteness ==
  Returned =>
    /\ DOMAIN result.info = {FieldNames[i] : i \in 1..Len(FieldNames)}
    /\ \A i \in 1..Len(FieldNames) : result.info[FieldNames[i]] \in STRING
    /\ \A i \in 1..6 : result.info[FieldNames[i]] # ""
    /\ result.info.api_id = ""
         <=> platform_classes[result.platform].api_id = <<"">>
    /\ result.info.api_hash = ""
         <=> platform_classes[result.platform].api_hash = <<"">>

\* A record was returned from a catalog that omits api_id and api_hash and
\* whose lang_packs held an empty entry or none.
C5_Witness ==
  /\ Returned
  /\ result.platform = "Android"
  /\ result.info.api_id = ""
  /\ platform_classes["macOS"].lang_packs = <<"en-US">>

\* C6: a call with a platform string that is no key of platform_classes
\* fails with UnsupportedPlatform, loads nothing and changes no class.
C6_UnsupportedPlatform ==
  [][result'.platform \in PlatformInputs \ Platforms
       => /\ result'.raised = UnsupportedPlatform
          /\ ~result'.loaded
          /\ platform_classes' = platform_classes
    ]_vars

\* "ios" was refused while the iOS class held a loaded catalog.
C6_Witness ==
  /\ result.platform = "ios"
  /\ result.raised = UnsupportedPlatform
  /\ platform_classes["iOS"].device_list # <<>>

\* What a call with data_dir d and identifier u gives on class cls.
CallOutcome(cls, d, u) ==
  <<RandomDevice([cls EXCEPT !.data_dir = d], Sha1Mod(u)).raised,
    RandomDevice([cls EXCEPT !.data_dir = d], Sha1Mod(u)).output>>

CompleteLoadOf(cls, d) ==
  /\ PathExists(JsonPath([cls EXCEPT !.data_dir = d]))
  /\ [cls EXCEPT !.data_dir = d]
       = [AssignCatalog(BaseDeviceGenerator(cls.platform),
                        Files[JsonPath([cls EXCEPT !.data_dir = d])])
            EXCEPT !.data_dir = d,
                   !.device_list =
                      Expand(AssignCatalog(BaseDeviceGenerator(cls.platform),
                                           Files[JsonPath([cls EXCEPT !.data_dir = d])]))]

OffsetIndex(hash_id, k, n) == (HashMod(hash_id, n) + k) % n

\* C8: a record returned for a flat-list platform holds the model and the
\* version of entry h mod (|M| * |V|) of the model-major cross product of
\* device_models M and system_versions V, and, for k = 1..6, the element at
\* index (h + k) mod len of the k-th of lang_codes, system_lang_codes,
\* app_versions, lang_packs, api_id, api_hash.
C8_FlatSelection ==
  Returned /\ result.platform \in FlatPlatforms =>
    LET cls == platform_classes[result.platform]
        M   == cls.device_models
        V   == cls.system_versions
        i   == HashMod(result.hash_id, Len(M) * Len(V))
    IN  /\ M # <<>> /\ V # <<>>
        /\ result.info.device_model = M[(i \div Len(V)) + 1]
        /\ result.info.system_version = V[(i % Len(V)) + 1]
        /\ \A k \in 1..6 :
             result.info[FieldNames[k + 2]]
               = ListsOf(cls)[k][OffsetIndex(result.hash_id, k, Len(ListsOf(cls)[k])) + 1]

\* The record of "user123" on Windows: 819403281310 selects entry 2 of the
\* four pairs and indexes 2, 0, 1, 0, 1, 1 of the six lists, none of the
\* first three being the placeholder the device list entry carries.
C8_Witness ==
  /\ Returned
  /\ result.platform = "Windows"
  /\ result.unique_id = "user123"
  /\ result.info = DeviceInfo("PC-B", "10", "fr", "en-US", "5.0", "tdesktop",
                              "17349", "3445")
  /\ platform_classes["Windows"].device_list[3].lang_code = "en"
  /\ platform_classes["Windows"].device_list[3].app_version = "4.8"

\* The model names of an iOS catalog, in document order.
RECURSIVE IOSNameSeq(_)
IOSNameSeq(models) ==
  IF models = <<>> THEN <<>>
  ELSE [j \in 1..Len(Head(models)[2]) |->
          Strip("iPhone " \o Head(models)[1] \o Head(models)[2][j])]
         \o IOSNameSeq(Tail(models))

\* The versions of one major of an iOS catalog.
IOSMinorSeq(major, minors) ==
  [j \in 1..Len(minors) |->
     IF minors[j][2] = <<>> THEN major \o "." \o minors[j][1]
     ELSE major \o "." \o minors[j][1] \o "." \o Head(minors[j][2])]

\* The versions of an iOS catalog, in document order.
RECURSIVE IOSVersionSeq(_)
IOSVersionSeq(versions) ==
  IF versions = <<>> THEN <<>>
  ELSE IOSMinorSeq(Head(versions)[1], Head(versions)[2])
         \o IOSVersionSeq(Tail(versions))

\* The <<model, version>> pairs of a device list.
PairsOf(device_list) ==
  [n \in 1..Len(device_list) |->
     <<device_list[n].device_model, device_list[n].system_version>>]

\* C9: the device list of a loaded iOS class is the cross product of every
\* (model id, suffix) with every (major, minor), model-major: its length is
\* the product of the two counts, entry (a, b) holds the a-th trimmed model
\* name and the b-th version, a version taking the first patch only; the
\* catalog of the design's example expands to exactly its two entries.
C9_IOSExpansion ==
  LoadedOnce(platform_classes["iOS"]) =>
    LET cls      == platform_classes["iOS"]
        names    == IOSNameSeq(cls.device_models)
        versions == IOSVersionSeq(cls.system_versions)
    IN  /\ Len(cls.device_list) = Len(names) * Len(versions)
        /\ \A a \in 1..Len(names), b \in 1..Len(versions) :
             PairsOf(cls.device_list)[(a - 1) * Len(versions) + b]
               = <<names[a], versions[b]>>
        /\ cls.device_models = << <<"SE", <<"">>>>, <<"12", <<" Pro">>>> >>
             /\ cls.system_versions = << <<"15", << <<"0", <<>>>> >> >> >>
             => PairsOf(cls.device_list)
                  = << <<"iPhone SE", "15.0">>, <<"iPhone 12 Pro", "15.0">> >>

\* The iOS class holds the expansion of the catalog with three suffixes and
\* three minors, of which one lists two patches and one none.
C9_Witness ==
  /\ LoadedOnce(platform_classes["iOS"])
  /\ PairsOf(platform_classes["iOS"].device_list)
       = << <<"iPhone 13 mini", "16.1.2">>, <<"iPhone 13 mini", "16.4">>,
            <<"iPhone 13 mini", "17.0.1">>,
            <<"iPhone 13 Pro Max", "16.1.2">>, <<"iPhone 13 Pro Max", "16.4">>,
            <<"iPhone 13 Pro Max", "17.0.1">>,
            <<"iPhone SE", "16.1.2">>, <<"iPhone SE", "16.4">>,
            <<"iPhone SE", "17.0.1">> >>

(***************************************************************************)
(* Properties of the calls from several threads.                           *)
(***************************************************************************)
\* What the call of a thread returns or raises when it is the only call of
\* a fresh process.
AloneOutcome(th) ==
  RandomDevice([BaseDeviceGenerator(th.platform) EXCEPT !.data_dir = th.data_dir],
               th.hash_id)

\* The threads that have called for platform p.
CallersOf(p) ==
  {t \in Threads : threads[t].pc # "idle" /\ threads[t].platform = p}

\* C10: when threads concurrently issue the first requests for a platform
\* (all with the same data_dir), the lazy initialization is guarded: at most
\* one of them loads the catalog, and every finished request ended the way
\* it ends when run alone with the same identifier: the same record, or the
\* same failure.
C10_GuardedInitialization ==
  \A p \in Platforms :
    (\A t, u \in CallersOf(p) : threads[t].data_dir = threads[u].data_dir) =>
      /\ Cardinality({t \in CallersOf(p) : threads[t].loaded}) <= 1
      /\ \A t \in CallersOf(p) :
           threads[t].pc = "done" =>
             /\ threads[t].raised = AloneOutcome(threads[t]).raised
             /\ threads[t].output = AloneOutcome(threads[t]).output

====
